---------------------------- MODULE Spec2Model ----------------------------
(***************************************************************************)
(* A model of the Swedish speech transcriber: the Flask web application    *)
(* (src/swedish_transcriber_webapp.py) and the command-line batch tool     *)
(* (src/swedish_transcriber.py).  One run of the model is one process:     *)
(* Init chooses which of the two programs is started.                      *)
(***************************************************************************)
EXTENDS Integers, Sequences, FiniteSets, TLC

VARIABLES
    prog,               \* which program this process runs: "web" or "cli"
    \* ---- web application: module globals (webapp lines 28-31)
    transcriber,        \* "None" or "model"
    model_loading,      \* BOOLEAN
    model_load_error,   \* "None" or "err"
    loader_pc,          \* position of the background load_model thread
    \* ---- web application: the upload folder and the request threads
    fs,                 \* upload folder: sanitised name -> 0 (absent) or the request that wrote it
    req,                \* per /transcribe request thread: its locals and response
    st,                 \* the /status request thread: values read so far, response
    dl,                 \* /download: the temporary files it left, its last request and response
    \* ---- command-line tool
    cli                 \* the CLI process: arguments, position, outputs, exit code

vars == <<prog, transcriber, model_loading, model_load_error, loader_pc, fs, req, st, dl, cli>>

(***************************************************************************)
(* Bounds of the model.                                                    *)
(***************************************************************************)
MaxTextLen  == 2        \* characters in a decoder output
MaxFiles    == 2        \* entries of the input directory in batch mode
MaxDownloads == 2       \* /download requests that create a file

\* the /transcribe request threads, numbered in the order their requests
\* arrive: the claims speak of one request and of two concurrent ones
Requests == {1, 2}

BSeq(S, n) == UNION {[1..k -> S] : k \in 0..n}

(***************************************************************************)
(* Strings are sequences of one-character strings.                         *)
(***************************************************************************)
Whitespace == {" "}

\* the file names of the uploads: '', 'a', '../a', 'b', '..'
FileNames == { <<>>, <<"a">>, <<".", ".", "/", "a">>, <<"b">>, <<".", ".">> }

TextChars == {" ", "x"}

DecoderOutputs == BSeq(TextChars, MaxTextLen)

\* str.lstrip(chars)
RECURSIVE LStrip(_, _)
LStrip(s, chars) ==
    IF s = <<>> THEN <<>>
    ELSE IF Head(s) \in chars THEN LStrip(Tail(s), chars)
    ELSE s

\* str.rstrip(chars)
RECURSIVE RStrip(_, _)
RStrip(s, chars) ==
    IF s = <<>> THEN <<>>
    ELSE IF s[Len(s)] \in chars THEN RStrip(SubSeq(s, 1, Len(s) - 1), chars)
    ELSE s

\* str.strip(chars)
StripChars(s, chars) == RStrip(LStrip(s, chars), chars)

\* a plausible slip: only the leading whitespace is removed
StripLeadingOnly(s) == LStrip(s, Whitespace)

\* transcription.strip()
Strip(s) == StripChars(s, Whitespace)

(***************************************************************************)
(* werkzeug.utils.secure_filename, as called at webapp line 420 (POSIX):   *)
(*   for sep in os.sep, os.path.altsep: filename = filename.replace(sep," ")*)
(*   filename = _filename_ascii_strip_re.sub("", "_".join(filename.split()))*)
(*   filename = filename.strip("._")                                        *)
(***************************************************************************)
ReplaceSep(s) == [i \in 1..Len(s) |-> IF s[i] = "/" THEN " " ELSE s[i]]

\* "_".join(s.split()): runs of whitespace between words become one "_",
\* leading and trailing whitespace disappears
RECURSIVE JoinWords(_)
JoinWords(s) ==
    LET t == LStrip(s, Whitespace) IN
    IF t = <<>> THEN <<>>
    ELSE IF Len(s) > Len(t) THEN JoinWords(t)
    ELSE IF Len(s) >= 2 /\ s[2] \in Whitespace
         THEN IF LStrip(Tail(s), Whitespace) = <<>>
              THEN <<Head(s)>>
              ELSE <<Head(s), "_">> \o JoinWords(Tail(s))
    ELSE <<Head(s)>> \o JoinWords(Tail(s))

SafeChars == {"a", "b", ".", "_", "-"}

IsSafeChar(c) == c \in SafeChars

AsciiStrip(s) == SelectSeq(s, IsSafeChar)

secure_filename(s) == StripChars(AsciiStrip(JoinWords(ReplaceSep(s))), {".", "_"})

SafeNames == {secure_filename(n) : n \in FileNames}

\* os.path.join(UPLOAD_FOLDER, ""): the path names the upload folder itself
IsFolderPath(name) == name = <<>>


(***************************************************************************)
(* File names and pathlib.  A name is a sequence of pieces, each the dot  *)
(* or a run of characters without a dot.                                  *)
(***************************************************************************)
DirNames ==
    { <<"a", ".", "wav">>, <<"a", ".", "WAV">>, <<"b", ".", "mp3">>, <<"a", ".", "txt">>,
      <<".", "wav">> }

\* the position of the last dot of the name, 0 when there is none (str.rfind)
RECURSIVE LastDot(_)
LastDot(name) ==
    IF name = <<>> THEN 0
    ELSE IF name[Len(name)] = "." THEN Len(name)
    ELSE LastDot(SubSeq(name, 1, Len(name) - 1))

\* PurePath.suffix: from the last dot on, unless that dot starts or ends the name
Suffix(name) ==
    LET i == LastDot(name) IN
    IF 1 < i /\ i < Len(name) THEN SubSeq(name, i, Len(name)) ELSE <<>>

\* PurePath.stem: the name without its suffix
Stem(name) ==
    LET i == LastDot(name) IN
    IF 1 < i /\ i < Len(name) THEN SubSeq(name, 1, i - 1) ELSE name

LowerPiece(p) == IF p = "WAV" THEN "wav" ELSE p

\* str.lower()
Lower(name) == [i \in 1..Len(name) |-> LowerPiece(name[i])]

\* line 126
audio_extensions ==
    { <<".", "wav">>, <<".", "mp3">>, <<".", "m4a">>, <<".", "flac">>, <<".", "ogg">>, <<".", "aac">> }

IsAudio(name) == Lower(Suffix(name)) \in audio_extensions

\* lines 127-128: the entries with an audio suffix, in iteration order
AudioFiles(entries) == SelectSeq(entries, IsAudio)

\* line 147: f"{audio_file.stem}_transcription.txt"
OutputName(name) == Stem(name) \o <<"_transcription", ".", "txt">>

(***************************************************************************)
(* Web application: the background loader thread (load_model).             *)
(***************************************************************************)
\* line 80: SwedishTranscriber() returned and the global is assigned
LoadOk80 ==
    /\ prog = "web"
    /\ loader_pc = "l80"
    /\ transcriber' = "model"
    /\ loader_pc' = "l81"
    /\ UNCHANGED <<prog, model_loading, model_load_error, fs, req, st, dl, cli>>

\* line 81: model_loading = False
Load81 ==
    /\ prog = "web"
    /\ loader_pc = "l81"
    /\ model_loading' = FALSE
    /\ loader_pc' = "done"
    /\ UNCHANGED <<prog, transcriber, model_load_error, fs, req, st, dl, cli>>

\* lines 80, 83-84: SwedishTranscriber() raised; model_load_error = str(e)
LoadFail84 ==
    /\ prog = "web"
    /\ loader_pc = "l80"
    /\ model_load_error' = "err"
    /\ loader_pc' = "l85"
    /\ UNCHANGED <<prog, transcriber, model_loading, fs, req, st, dl, cli>>

\* a plausible slip: the loader starts over after a failed load
Load85Retry ==
    /\ prog = "web"
    /\ loader_pc = "l85"
    /\ loader_pc' = "l80"
    /\ UNCHANGED <<prog, transcriber, model_loading, model_load_error, fs, req, st, dl, cli>>

\* line 85: model_loading = False
Load85 ==
    /\ prog = "web"
    /\ loader_pc = "l85"
    /\ model_loading' = FALSE
    /\ loader_pc' = "done"
    /\ UNCHANGED <<prog, transcriber, model_load_error, fs, req, st, dl, cli>>

(***************************************************************************)
(* Web application: GET /status.  The handler reads the three globals one  *)
(* after the other while the loader thread runs.                           *)
(***************************************************************************)
\* line 399: 'loading': model_loading
StatusRead399 ==
    /\ prog = "web"
    /\ st.pc \in {"idle", "done"}
    /\ st' = [pc |-> "l400", loading |-> model_loading, ready |-> FALSE, error |-> "None"]
    /\ UNCHANGED <<prog, transcriber, model_loading, model_load_error, loader_pc, fs, req, dl, cli>>

\* line 400: 'ready': transcriber is not None
StatusRead400 ==
    /\ prog = "web"
    /\ st.pc = "l400"
    /\ st' = [st EXCEPT !.pc = "l401", !.ready = (transcriber # "None")]
    /\ UNCHANGED <<prog, transcriber, model_loading, model_load_error, loader_pc, fs, req, dl, cli>>

\* line 401: 'error': model_load_error; the response is sent
StatusRead401 ==
    /\ prog = "web"
    /\ st.pc = "l401"
    /\ st' = [st EXCEPT !.pc = "done", !.error = model_load_error]
    /\ UNCHANGED <<prog, transcriber, model_loading, model_load_error, loader_pc, fs, req, dl, cli>>

(***************************************************************************)
(* Web application: POST /transcribe, one handler run per request thread.  *)
(***************************************************************************)
NoResp == [kind |-> "none", status |-> 0, transcription |-> <<>>]

\* jsonify({'error': ...}), code
JsonError(code) == [kind |-> "json_error", status |-> code, transcription |-> <<>>]

\* jsonify({'transcription': ..., 'processing_time': ...})
JsonOk(text) == [kind |-> "json_ok", status |-> 200, transcription |-> text]

\* an exception that leaves the view function: Flask answers 500 with its HTML error page
Uncaught == [kind |-> "uncaught", status |-> 500, transcription |-> <<>>]

IdleReq ==
    [pc |-> "idle", hasAudio |-> FALSE, ready_seen |-> FALSE,
     has_temp_path |-> FALSE, temp_path |-> <<>>, saved |-> FALSE, invoked |-> FALSE,
     read_from |-> 0, resp |-> NoResp]

WebUnchangedByRequest == UNCHANGED <<prog, transcriber, model_loading, model_load_error, loader_pc, st, dl, cli>>

\* a plausible slip: the form is validated before the model is looked at
EarlyReturnFormFirst(handle, hasAudio, filename) ==
    IF ~hasAudio THEN 400
    ELSE IF filename = <<>> THEN 400
    ELSE IF handle = "None" THEN 500
    ELSE 0

\* a plausible slip: the handler does not look at the model before using it
EarlyReturnNoModelCheck(handle, hasAudio, filename) ==
    IF ~hasAudio THEN 400
    ELSE IF filename = <<>> THEN 400
    ELSE 0

\* lines 408-416: the status of the early return, 0 when the handler goes on
EarlyReturn(handle, hasAudio, filename) ==
    IF handle = "None" THEN 500
    ELSE IF ~hasAudio THEN 400
    ELSE IF filename = <<>> THEN 400
    ELSE 0

\* lines 408-422: the request arrives; the model check and the form checks,
\* then sanitise the name, build the path and save the upload.  file.save
\* raises when the path is the upload folder itself, and may fail for the
\* environment's reasons before or after the file was created.
TranscribeBegin(r) ==
    /\ prog = "web"
    /\ req[r].pc = "idle"
    /\ \A q \in Requests : q < r => req[q].pc # "idle"
    /\ \E hasAudio \in BOOLEAN :
       \E filename \in (IF hasAudio THEN FileNames ELSE {<<>>}) :
          LET arrived == [IdleReq EXCEPT !.hasAudio = hasAudio,
                                         !.ready_seen = (transcriber # "None")]
              early   == EarlyReturn(transcriber, hasAudio, filename)
              path    == secure_filename(filename)
              local   == [arrived EXCEPT !.has_temp_path = TRUE, !.temp_path = path] IN
          IF early # 0
          THEN /\ req' = [req EXCEPT ![r] = [arrived EXCEPT !.pc = "done", !.resp = JsonError(early)]]
               /\ UNCHANGED fs
          ELSE IF IsFolderPath(path)
          THEN /\ req' = [req EXCEPT ![r] = [local EXCEPT !.pc = "l439"]]
               /\ UNCHANGED fs
          ELSE \E outcome \in {"saved", "failed", "failed_partial"} :
                 /\ req' = [req EXCEPT ![r] =
                               [local EXCEPT !.pc = IF outcome = "saved" THEN "l426" ELSE "l439",
                                             !.saved = (outcome # "failed")]]
                 /\ fs' = IF outcome = "failed" THEN fs ELSE [fs EXCEPT ![path] = r]
    /\ WebUnchangedByRequest

\* lines 425-427 with transcribe_audio_file (44-73): load the audio from the
\* path, run the model, decode, strip.  Any failure is re-raised (line 73).
RunPipeline(r) ==
    /\ prog = "web"
    /\ req[r].pc = "l426"
    /\ LET called == [req[r] EXCEPT !.invoked = TRUE] IN
       IF fs[req[r].temp_path] = 0
       THEN req' = [req EXCEPT ![r] = [called EXCEPT !.pc = "l439"]]
       ELSE \/ \E decoded \in DecoderOutputs :
                 req' = [req EXCEPT ![r] =
                           [called EXCEPT !.pc = "l430",
                                          !.read_from = fs[req[r].temp_path],
                                          !.resp = [kind |-> "pending", status |-> 0,
                                                    transcription |-> Strip(decoded)]]]
            \/ req' = [req EXCEPT ![r] = [called EXCEPT !.pc = "l439"]]
    /\ UNCHANGED fs
    /\ WebUnchangedByRequest

\* lines 430-435: os.unlink(temp_path), then the success response.
\* os.unlink raises when the file is gone, and may fail for the environment's reasons.
UnlinkAndReturn(r) ==
    /\ prog = "web"
    /\ req[r].pc = "l430"
    /\ LET path == req[r].temp_path IN
       IF fs[path] = 0
       THEN /\ req' = [req EXCEPT ![r].pc = "l439", ![r].resp = NoResp]
            /\ UNCHANGED fs
       ELSE \/ /\ fs' = [fs EXCEPT ![path] = 0]
               /\ req' = [req EXCEPT ![r].pc = "done", ![r].resp = JsonOk(req[r].resp.transcription)]
            \/ /\ req' = [req EXCEPT ![r].pc = "l439", ![r].resp = NoResp]
               /\ UNCHANGED fs
    /\ WebUnchangedByRequest

\* os.path.exists(temp_path)
PathExists(path) == IF IsFolderPath(path) THEN TRUE ELSE fs[path] # 0

\* lines 437-439: the except clause tests whether the path exists
ExceptCheck(r) ==
    /\ prog = "web"
    /\ req[r].pc = "l439"
    /\ IF req[r].has_temp_path /\ PathExists(req[r].temp_path)
       THEN req' = [req EXCEPT ![r].pc = "l440"]
       ELSE req' = [req EXCEPT ![r].pc = "done", ![r].resp = JsonError(500)]
    /\ UNCHANGED fs
    /\ WebUnchangedByRequest

\* lines 440-441: os.unlink(temp_path) inside the except clause, then the
\* error response.  An exception raised here leaves the handler.
ExceptUnlink(r) ==
    /\ prog = "web"
    /\ req[r].pc = "l440"
    /\ LET path == req[r].temp_path IN
       IF IsFolderPath(path)
       THEN /\ req' = [req EXCEPT ![r].pc = "done", ![r].resp = Uncaught]
            /\ UNCHANGED fs
       ELSE IF fs[path] = 0
       THEN /\ req' = [req EXCEPT ![r].pc = "done", ![r].resp = Uncaught]
            /\ UNCHANGED fs
       ELSE \/ /\ fs' = [fs EXCEPT ![path] = 0]
               /\ req' = [req EXCEPT ![r].pc = "done", ![r].resp = JsonError(500)]
            \/ /\ req' = [req EXCEPT ![r].pc = "done", ![r].resp = Uncaught]
               /\ UNCHANGED fs
    /\ WebUnchangedByRequest

(***************************************************************************)
(* Web application: GET /download.                                         *)
(***************************************************************************)
\* the text parameter: missing or empty, or a text
DownloadTexts == { <<>>, <<"Hej">> }

\* the filename parameter: 'clip.mp3', or the default 'transcription'
DownloadNames == { <<"clip", ".", "mp3">>, <<"transcription">> }

\* the download name built from the whole filename, suffix included
DownloadNameKeepsSuffix(filename) == filename \o <<"_transcription", ".", "txt">>

\* lines 457-458: f"{Path(filename).stem}_transcription.txt"
DownloadName(filename) == Stem(filename) \o <<"_transcription", ".", "txt">>

NoDownload == [status |-> 0, name |-> <<>>, body |-> <<>>]

\* line 449: "No text to download", 400
NoText == [status |-> 400, name |-> <<>>, body |-> <<>>]

\* lines 460-465: send_file(path, as_attachment=True, download_name=...), the
\* body is what the file at the path holds
SendFile(content, download_name) == [status |-> 200, name |-> download_name, body |-> content]

\* a download that removes its temporary file once it is sent
DownloadCleansUp ==
    /\ prog = "web"
    /\ Len(dl.files) < MaxDownloads
    /\ \E text \in DownloadTexts : \E filename \in DownloadNames :
          LET args    == [text |-> text, filename |-> filename]
              written == Append(dl.files, text) IN
          dl' = IF text = <<>>
                THEN [dl EXCEPT !.args = args, !.resp = NoText]
                ELSE [files |-> SubSeq(written, 1, Len(written) - 1), args |-> args,
                      resp  |-> SendFile(written[Len(written)], DownloadName(filename))]
    /\ UNCHANGED <<prog, transcriber, model_loading, model_load_error, loader_pc, fs, req, st, cli>>

\* lines 445-465: 400 without a text; else a new temporary file is created
\* under a fresh name (files[k] is the k-th of them), the text is written to
\* it and it is sent as <stem>_transcription.txt; nothing deletes it.  The
\* names NamedTemporaryFile draws ('tmp', eight random characters, '.txt')
\* are kept apart from the names uploads are saved under.
Download ==
    /\ prog = "web"
    /\ Len(dl.files) < MaxDownloads
    /\ \E text \in DownloadTexts : \E filename \in DownloadNames :
          LET args    == [text |-> text, filename |-> filename]
              written == Append(dl.files, text) IN
          dl' = IF text = <<>>
                THEN [dl EXCEPT !.args = args, !.resp = NoText]
                ELSE [files |-> written, args |-> args,
                      resp  |-> SendFile(written[Len(written)], DownloadName(filename))]
    /\ UNCHANGED <<prog, transcriber, model_loading, model_load_error, loader_pc, fs, req, st, cli>>

WebInit ==
    /\ transcriber = "None"
    /\ model_loading = TRUE
    /\ model_load_error = "None"
    /\ loader_pc = "l80"
    /\ fs = [n \in SafeNames \ {<<>>} |-> 0]
    /\ req = [r \in Requests |-> IdleReq]
    /\ st = [pc |-> "idle", loading |-> TRUE, ready |-> FALSE, error |-> "None"]
    /\ dl = [files |-> <<>>, args |-> [text |-> <<>>, filename |-> <<>>], resp |-> NoDownload]

WebNext ==
    \/ LoadOk80
    \/ Load81
    \/ LoadFail84
    \/ Load85
    \/ StatusRead399
    \/ StatusRead400
    \/ StatusRead401
    \/ \E r \in Requests : TranscribeBegin(r)
    \/ \E r \in Requests : RunPipeline(r)
    \/ \E r \in Requests : UnlinkAndReturn(r)
    \/ \E r \in Requests : ExceptCheck(r)
    \/ \E r \in Requests : ExceptUnlink(r)
    \/ Download

\* the directory listings: distinct names in the order iterdir yields them
Listings ==
    {l \in BSeq(DirNames, MaxFiles) : \A i, j \in 1..Len(l) : i # j => l[i] # l[j]}

(***************************************************************************)
(* Command-line tool: one file through transcribe_file.  What happens to   *)
(* the file (it vanished, librosa fails, the model fails, the decoder's    *)
(* text, the write fails) is the environment's choice.                     *)
(***************************************************************************)
Happenings(has_output) ==
    {[kind |-> k, text |-> <<>>] : k \in {"missing", "load_failed", "inference_failed"}}
    \cup {[kind |-> k, text |-> d] :
            k \in ({"ok"} \cup (IF has_output THEN {"write_failed"} ELSE {})),
            d \in DecoderOutputs}

\* what transcribe_audio returned: None, or the text; padded records that the
\* decoder's text had leading or trailing whitespace
NotCalled == [called |-> FALSE, none |-> TRUE, padded |-> FALSE, text |-> <<>>]

ReturnedNone == [called |-> TRUE, none |-> TRUE, padded |-> FALSE, text |-> <<>>]

\* lines 51-87: None when loading or inference failed, else the stripped text
transcribe_audio(h) ==
    IF h.kind = "load_failed" THEN ReturnedNone
    ELSE IF h.kind = "inference_failed" THEN ReturnedNone
    ELSE [called |-> TRUE, none |-> FALSE, text |-> Strip(h.text),
          padded |-> (h.text # <<>> /\ (h.text[1] \in Whitespace \/ h.text[Len(h.text)] \in Whitespace))]

\* lines 89-116: the return value, the transcribe_audio result and whether
\* the output file was written
transcribe_file(h, has_output) ==
    IF h.kind = "missing"
    THEN [ok |-> FALSE, written |-> FALSE, result |-> NotCalled]
    ELSE LET t == transcribe_audio(h) IN
         IF t.none THEN [ok |-> FALSE, written |-> FALSE, result |-> t]
         ELSE IF ~has_output THEN [ok |-> TRUE, written |-> FALSE, result |-> t]
         ELSE IF h.kind = "write_failed" THEN [ok |-> FALSE, written |-> FALSE, result |-> t]
         ELSE [ok |-> TRUE, written |-> TRUE, result |-> t]

IdleCli ==
    [pc |-> "off", input_kind |-> "none", has_output |-> FALSE, out_is_file |-> FALSE,
     entries |-> <<>>, audio_files |-> <<>>, i |-> 1, attempted |-> <<>>, results |-> <<>>,
     outdir |-> {}, last |-> NotCalled, load_failed |-> FALSE, exit_code |-> -1]

CliUnchangedWeb == UNCHANGED <<prog, transcriber, model_loading, model_load_error, loader_pc, fs, req, st, dl>>

\* line 174 with __init__ (20-37): the model loads, or sys.exit(1)
CliLoadModel ==
    /\ prog = "cli"
    /\ cli.pc = "l174"
    /\ \/ cli' = [cli EXCEPT !.pc = "l177"]
       \/ cli' = [cli EXCEPT !.pc = "exit", !.load_failed = TRUE, !.exit_code = 1]
    /\ CliUnchangedWeb

\* lines 177-187: file, directory, or neither (sys.exit(1))
CliDispatch ==
    /\ prog = "cli"
    /\ cli.pc = "l177"
    /\ cli' = IF cli.input_kind = "file" THEN [cli EXCEPT !.pc = "l181"]
              ELSE IF cli.input_kind = "dir" THEN [cli EXCEPT !.pc = "l120"]
              ELSE [cli EXCEPT !.pc = "exit", !.exit_code = 1]
    /\ CliUnchangedWeb

\* line 181: transcribe_file(args.input, args.output); main returns
CliTranscribeSingle ==
    /\ prog = "cli"
    /\ cli.pc = "l181"
    /\ \E h \in Happenings(cli.has_output) :
          LET res == transcribe_file(h, cli.has_output) IN
          cli' = [cli EXCEPT !.pc = "exit", !.exit_code = 0,
                             !.results = <<res.ok>>, !.last = res.result]
    /\ CliUnchangedWeb

\* lines 120-139: list and filter the directory; return when nothing is
\* selected; create the output directory, which raises when the path is an
\* existing file (the exception ends the process with code 1)
CliDirList ==
    /\ prog = "cli"
    /\ cli.pc = "l120"
    /\ LET files == AudioFiles(cli.entries) IN
       cli' = IF files = <<>> THEN [cli EXCEPT !.pc = "exit", !.exit_code = 0]
              ELSE IF cli.has_output /\ cli.out_is_file
              THEN [cli EXCEPT !.pc = "exit", !.audio_files = files, !.exit_code = 1]
              ELSE [cli EXCEPT !.pc = "l142", !.audio_files = files, !.i = 1]
    /\ CliUnchangedWeb

\* the output directory after writing `content` under `name` (open(..., 'w'))
Overwrite(dir, name, content) ==
    {f \in dir : f.name # name} \cup {[name |-> name, content |-> content]}

\* a plausible slip: a failed file ends the batch
CliDirStepStopOnFailure ==
    /\ prog = "cli"
    /\ cli.pc = "l142"
    /\ cli.i <= Len(cli.audio_files)
    /\ \E h \in Happenings(cli.has_output) :
          LET audio_file == cli.audio_files[cli.i]
              res == transcribe_file(h, cli.has_output) IN
          cli' = [cli EXCEPT
                    !.i = IF res.ok THEN cli.i + 1 ELSE Len(cli.audio_files) + 1,
                    !.attempted = Append(cli.attempted, audio_file),
                    !.results = Append(cli.results, res.ok),
                    !.last = res.result,
                    !.outdir = IF res.written
                               THEN Overwrite(cli.outdir, OutputName(audio_file), audio_file)
                               ELSE cli.outdir]
    /\ CliUnchangedWeb

\* lines 142-151: one iteration of the loop over audio_files
CliDirStep ==
    /\ prog = "cli"
    /\ cli.pc = "l142"
    /\ cli.i <= Len(cli.audio_files)
    /\ \E h \in Happenings(cli.has_output) :
          LET audio_file == cli.audio_files[cli.i]
              res == transcribe_file(h, cli.has_output) IN
          cli' = [cli EXCEPT
                    !.i = cli.i + 1,
                    !.attempted = Append(cli.attempted, audio_file),
                    !.results = Append(cli.results, res.ok),
                    !.last = res.result,
                    !.outdir = IF res.written
                               THEN Overwrite(cli.outdir, OutputName(audio_file), audio_file)
                               ELSE cli.outdir]
    /\ CliUnchangedWeb

\* line 142, the list is exhausted: transcribe_directory and main return
CliDirReturn ==
    /\ prog = "cli"
    /\ cli.pc = "l142"
    /\ cli.i > Len(cli.audio_files)
    /\ cli' = [cli EXCEPT !.pc = "exit", !.exit_code = 0]
    /\ CliUnchangedWeb

CliInit ==
    \E kind \in {"file", "dir", "none"} :
    \E has_output \in BOOLEAN :
    \E out_is_file \in (IF kind = "dir" /\ has_output THEN BOOLEAN ELSE {FALSE}) :
    \E entries \in (IF kind = "dir" THEN Listings ELSE {<<>>}) :
        cli = [IdleCli EXCEPT !.pc = "l174", !.input_kind = kind, !.has_output = has_output,
                              !.out_is_file = out_is_file, !.entries = entries]

CliNext ==
    \/ CliLoadModel
    \/ CliDispatch
    \/ CliTranscribeSingle
    \/ CliDirList
    \/ CliDirStep
    \/ CliDirReturn

Init ==
    /\ WebInit
    /\ \/ prog = "web" /\ cli = IdleCli
       \/ prog = "cli" /\ CliInit

Next == WebNext \/ CliNext

Spec == Init /\ [][Next]_vars

(***************************************************************************)
(* Claims about the web application.                                       *)
(***************************************************************************)
Completed(r) == req[r].pc = "done"

\* C1: once a /transcribe request that passed the model and form checks has
\* completed, on whatever exit path, the temporary file it saved is not on
\* disk any more.
C1_UploadGoneAfterRequest ==
    \A r \in Requests :
        (Completed(r) /\ req[r].has_temp_path /\ ~IsFolderPath(req[r].temp_path))
            => fs[req[r].temp_path] # r

\* the three shapes of a /status response
StatusShapes ==
    {[loading |-> TRUE,  ready |-> FALSE, error |-> e] : e \in {"None", "err"}}
    \cup {[loading |-> FALSE, ready |-> TRUE,  error |-> "None"],
          [loading |-> FALSE, ready |-> FALSE, error |-> "err"]}

\* C2: whatever the interleaving with the loader thread, a /status response
\* is loading with not ready, or loaded and ready without error, or loaded
\* and not ready with the error message.
C2_StatusIsOneOfThreeShapes ==
    st.pc = "done" =>
        [loading |-> st.loading, ready |-> st.ready, error |-> st.error] \in StatusShapes

ReadyState ==
    IF transcriber # "None" THEN "ready"
    ELSE IF model_load_error # "None" THEN "error"
    ELSE "loading"

\* C3: the readiness state starts at loading and leaves it once, to ready or
\* to error, by a step of the loader thread; a set model handle and a set
\* error never change again, they are never both set, and once model_loading
\* is False none of the three globals changes, whatever requests are served.
C3_ReadinessChangesOnce ==
    /\ (ReadyState = "loading" /\ model_loading = TRUE)
    /\ [][ /\ (ReadyState # "loading" => ReadyState' = ReadyState)
           /\ (transcriber # "None" => transcriber' = transcriber)
           /\ (model_load_error # "None" => model_load_error' = model_load_error)
           /\ (~model_loading =>
                 UNCHANGED <<transcriber, model_loading, model_load_error>>)
           /\ ~(transcriber' # "None" /\ model_load_error' # "None")
           /\ (<<transcriber, model_loading, model_load_error>>' #
                 <<transcriber, model_loading, model_load_error>>
                   => loader_pc' # loader_pc) ]_vars

\* C3 witness: the load is over and requests of both kinds were served after it
C3_Witness ==
    /\ loader_pc = "done"
    /\ ReadyState = "ready"
    /\ st.pc = "done" /\ ~st.loading
    /\ \E r \in Requests : Completed(r) /\ req[r].resp.kind = "json_ok"

\* C4: a /transcribe request that finds the model not ready is answered 500
\* with an error body, saves no upload and does not call the pipeline.
C4_NotReadyRejectedBeforePipeline ==
    \A r \in Requests :
        (req[r].pc # "idle" /\ ~req[r].ready_seen) =>
            /\ Completed(r)
            /\ req[r].resp = JsonError(500)
            /\ ~req[r].has_temp_path
            /\ ~req[r].saved
            /\ ~req[r].invoked

\* C4 witness: a request carrying an upload was rejected while the model was not ready
C4_Witness ==
    \E r \in Requests :
        /\ Completed(r) /\ ~req[r].ready_seen /\ req[r].hasAudio
        /\ req[r].resp.status = 500

\* C5, as claimed: a request without the audio field is answered 400 with an
\* error body in every model state.
C5_NoAudioAlways400 ==
    \A r \in Requests :
        (Completed(r) /\ ~req[r].hasAudio) => req[r].resp = JsonError(400)

\* C5, amended: a request without the audio field is answered with an error
\* body, status 400 when the model handle is set and 500 when it is not.
C5_NoAudio400OnlyWhenReady ==
    \A r \in Requests :
        (Completed(r) /\ ~req[r].hasAudio) =>
            req[r].resp = JsonError(IF req[r].ready_seen THEN 400 ELSE 500)

\* C5 witness: one request without audio answered before the model was ready,
\* another after
C5_Witness ==
    \E r1, r2 \in Requests :
        /\ Completed(r1) /\ ~req[r1].hasAudio /\ ~req[r1].ready_seen
        /\ Completed(r2) /\ ~req[r2].hasAudio /\ req[r2].ready_seen

\* C6: every completed /transcribe request was answered with the success
\* JSON body or with an error JSON body of status 400 or 500; no exception
\* leaves the handler.
C6_AlwaysStructuredResponse ==
    \A r \in Requests :
        Completed(r) =>
            \/ req[r].resp.kind = "json_ok" /\ req[r].resp.status = 200
            \/ req[r].resp.kind = "json_error" /\ req[r].resp.status \in {400, 500}


(***************************************************************************)
(* Claims about the command-line tool and the pipeline.                    *)
(***************************************************************************)
InBatch == prog = "cli" /\ cli.input_kind = "dir" /\ cli.pc \in {"l142", "exit"}

BatchFinished == InBatch /\ cli.pc = "exit" /\ cli.exit_code = 0

\* C7: in directory mode the selected files are attempted once each, in the
\* order of the list, whatever happened to the files before: after i-1
\* iterations exactly the first i-1 files were attempted, the loop can always
\* take its next step, and when it has returned every file was attempted.
C7_BatchAttemptsEveryFileInOrder ==
    InBatch =>
        /\ cli.i \in 1..(Len(cli.audio_files) + 1)
        /\ (cli.pc = "l142" \/ BatchFinished) =>
              /\ cli.attempted = SubSeq(cli.audio_files, 1, cli.i - 1)
              /\ Len(cli.results) = cli.i - 1
        /\ cli.pc = "l142" => ENABLED CliNext
        /\ BatchFinished => cli.attempted = cli.audio_files

\* C7 witness: the batch finished although its first file failed and a later one did not
C7_Witness ==
    /\ BatchFinished
    /\ Len(cli.results) = MaxFiles
    /\ cli.results[1] = FALSE
    /\ cli.results[Len(cli.results)] = TRUE

Range(f) == {f[i] : i \in DOMAIN f}

\* C8: the batch processes exactly the directory entries whose suffix,
\* lower-cased, is in the allow-list, and with an output directory given it
\* leaves one distinct output file per processed input (here: in the batches
\* whose files were all transcribed and written).
C8_OneOutputFilePerInput ==
    BatchFinished =>
        /\ Range(cli.attempted) = {n \in Range(cli.entries) : Lower(Suffix(n)) \in audio_extensions}
        /\ (cli.has_output /\ \A k \in DOMAIN cli.results : cli.results[k])
              => Cardinality(cli.outdir) = Len(cli.audio_files)

\* C9: the process exits with code 1 exactly when the model failed to load
\* or the input path is neither a file nor a directory, and with 0 otherwise.
C9_ExitCodeOneOnlyForLoadOrInput ==
    (prog = "cli" /\ cli.pc = "exit") =>
        /\ cli.exit_code \in {0, 1}
        /\ cli.exit_code = 1 <=> (cli.load_failed \/ cli.input_kind = "none")

Trimmed(t) == t = <<>> \/ (t[1] \notin Whitespace /\ t[Len(t)] \notin Whitespace)

\* the text the web pipeline returned to the handler of request r
WebReturned(r) == req[r].resp.kind \in {"pending", "json_ok"}

\* C10, as claimed: what the pipeline returns as a success is a non-empty
\* string without leading or trailing whitespace.
C10_ResultNonEmptyAndTrimmed ==
    /\ \A r \in Requests :
          WebReturned(r) =>
              (req[r].resp.transcription # <<>> /\ Trimmed(req[r].resp.transcription))
    /\ (cli.last.called /\ ~cli.last.none) =>
              (cli.last.text # <<>> /\ Trimmed(cli.last.text))

\* C10, amended: what the pipeline returns as a success is a string without
\* leading or trailing whitespace, which may be empty.
C10_ResultTrimmed ==
    /\ \A r \in Requests : WebReturned(r) => Trimmed(req[r].resp.transcription)
    /\ (cli.last.called /\ ~cli.last.none) =>
          Trimmed(cli.last.text)

\* C10 witness: the decoder's text had surrounding whitespace and the CLI
\* pipeline returned the text inside it
C10_Witness ==
    /\ cli.last.called /\ ~cli.last.none
    /\ cli.last.padded
    /\ cli.last.text # <<>>

(***************************************************************************)
(* GET /download.                                                          *)
(***************************************************************************)
\* a step that serves a /download request
DownloadServed == dl' # dl

ClipName == <<"clip", "_transcription", ".", "txt">>
DefaultName == <<"transcription", "_transcription", ".", "txt">>

HoldsFile(r) == req[r].has_temp_path /\ ~IsFolderPath(req[r].temp_path)

\* C13: concurrent /transcribe requests do not interfere through the temp
\* path, also when their sanitised filenames are equal: until a request has
\* read the file it saved, the file holds that request's upload; what a
\* request transcribes is its own upload; and the file a request is about to
\* unlink has not been removed by another request.
C13_NoInterferenceThroughTempPath ==
    \A r \in Requests :
        /\ (HoldsFile(r) /\ req[r].pc = "l426") => fs[req[r].temp_path] = r
        /\ req[r].read_from \in {0, r}
        /\ (HoldsFile(r) /\ req[r].pc \in {"l430", "l440"}) => fs[req[r].temp_path] # 0

=============================================================================
